---- MODULE Spec2Model ----
(***************************************************************************)
(* Model of src/web.rs: Downloader::download_from and                      *)
(* Article::epub_from_url, the URL -> e-book conversion pipeline.          *)
(*                                                                         *)
(* A string that is handed to Url::parse is modelled by its syntactic      *)
(* parts (scheme, authority, leading slash, path segments); a path segment *)
(* is a record [stem, ext], so that a filename and its extension are       *)
(* computed, not looked up.  The HTML content of an article is modelled by *)
(* the sequence of its img elements in document order, which is what       *)
(* soup.tag("img").find_all() yields.                                      *)
(***************************************************************************)
EXTENDS Integers, Sequences, FiniteSets, TLC

\* Largest number of img elements in an article's content.
MaxImgs == 2

----------------------------------------------------------------------------
\* Option<T> and Result<T>
Some(v) == [some |-> TRUE, val |-> v]
NoneStr == [some |-> FALSE, val |-> ""]
NoneContent == [some |-> FALSE, val |-> <<>>]

Seg(stem, ext) == [stem |-> stem, ext |-> ext]
EmptySeg == Seg("", "")

NoUrl == [scheme |-> "", host |-> "", path |-> <<>>]
NoPath == [dir |-> "", name |-> EmptySeg]
Ok(v) == [ok |-> TRUE, val |-> v, err |-> ""]
ErrUrl(e) == [ok |-> FALSE, val |-> NoUrl, err |-> e]
ErrPath(e) == [ok |-> FALSE, val |-> NoPath, err |-> e]

----------------------------------------------------------------------------
\* Strings given to Url::parse
Raw(scheme, auth, abs, path) ==
    [scheme |-> scheme, auth |-> auth, abs |-> abs, path |-> path]

Hosts == {"news", "cdn"}
BadHost == "exa mple"

ValidHost(h) == h \in Hosts

\* "https://news/blog/post"
TargetGood == Raw("https", "news", TRUE, <<Seg("blog", ""), Seg("post", "")>>)
\* "https://news"
TargetRoot == Raw("https", "news", FALSE, <<>>)
\* "not a url"
TargetNoScheme == Raw("", "", FALSE, <<Seg("not a url", "")>>)
\* "https://exa mple/"
TargetBadHost == Raw("https", BadHost, TRUE, <<EmptySeg>>)

Targets == {TargetGood, TargetRoot, TargetNoScheme, TargetBadHost}

\* src attribute values of img elements
SrcAbs == Raw("https", "cdn", TRUE, <<Seg("logo", "png")>>)       \* https://cdn/logo.png
SrcAbsRoot == Raw("https", "cdn", FALSE, <<>>)                    \* https://cdn
SrcRel == Raw("", "", FALSE, <<Seg("logo", "png")>>)              \* logo.png
SrcRelDir == Raw("", "", FALSE, <<Seg("images", ""), Seg("a", "jpg")>>) \* images/a.jpg
SrcAbsPath == Raw("", "", TRUE, <<Seg("pic", "")>>)               \* /pic
SrcProtoRel == Raw("", "cdn", FALSE, <<>>)                        \* //cdn
SrcBad == Raw("https", BadHost, TRUE, <<Seg("x", "png")>>)        \* https://exa mple/x.png
SrcRelBad == Raw("", BadHost, TRUE, <<Seg("x", "png")>>)          \* //exa mple/x.png

Srcs == {SrcAbs, SrcAbsRoot, SrcRel, SrcRelDir, SrcAbsPath, SrcProtoRel, SrcBad, SrcRelBad}

Img(src) == [has_src |-> TRUE, src |-> src]
ImgNoSrc == [has_src |-> FALSE, src |-> Raw("", "", FALSE, <<>>)]
ImgElems == {Img(s) : s \in Srcs} \cup {ImgNoSrc}

RECURSIVE SeqsUpTo(_, _)
SeqsUpTo(S, n) ==
    IF n = 0 THEN {<<>>}
    ELSE LET R == SeqsUpTo(S, n - 1)
         IN R \cup {Append(r, x) : r \in {q \in R : Len(q) = n - 1}, x \in S}

Contents == SeqsUpTo(ImgElems, MaxImgs)

Articles ==
    [title : {NoneStr, Some("T")},
     byline : {NoneStr, Some("B")},
     content : {NoneContent} \cup {Some(c) : c \in Contents}]

NoArticle == [title |-> NoneStr, byline |-> NoneStr, content |-> NoneContent]

----------------------------------------------------------------------------
\* url crate: an empty path of a URL with an authority is "/"
NormPath(p) == IF p = <<>> THEN <<EmptySeg>> ELSE p

Front(s) == SubSeq(s, 1, Len(s) - 1)

\* Url::parse(&str)
UrlParse(s) ==
    IF s.scheme = "" THEN ErrUrl("RelativeUrlWithoutBase")
    ELSE IF s.auth = "" THEN ErrUrl("EmptyHost")
    ELSE IF ~ValidHost(s.auth) THEN ErrUrl("InvalidDomainCharacter")
    ELSE Ok([scheme |-> s.scheme, host |-> s.auth, path |-> NormPath(s.path)])

\* Url::join(&self, &str)
UrlJoin(base, s) ==
    IF s.scheme # "" THEN UrlParse(s)
    ELSE IF s.auth # ""
         THEN IF ValidHost(s.auth)
              THEN Ok([scheme |-> base.scheme, host |-> s.auth, path |-> NormPath(s.path)])
              ELSE ErrUrl("InvalidDomainCharacter")
    ELSE IF s.abs
         THEN Ok([scheme |-> base.scheme, host |-> base.host, path |-> NormPath(s.path)])
    ELSE IF s.path = <<>> THEN Ok(base)
    ELSE Ok([scheme |-> base.scheme, host |-> base.host, path |-> Front(base.path) \o s.path])

\* download_from, "Choosing filename": the last path segment of
\* response.url(), taken here to be the requested url (no redirect)
TmpBin == Seg("tmp", "bin")
Filename(url) ==
    LET last == url.path[Len(url.path)]
    IN IF url.path = <<>> \/ last = EmptySeg THEN TmpBin ELSE last

\* self.path.join(filename)
LocalAbsPath(dir, name) == [dir |-> dir, name |-> name]

----------------------------------------------------------------------------
VARIABLES
    pc,                     \* position in epub_from_url
    result,                 \* "running", "ok" (Ok(())), "err" (Err(e)), "panic"
    target,                 \* the input string
    tmp_created,            \* a working directory was created in this run
    tmp_exists,             \* the working directory exists
    files,                  \* files of the working directory: name -> payload
    file_type,              \* downloader.file_type: "unset", "Text", "Image"
    fetches,                \* download_from calls: <<[url, mode, outcome]>>
    local_abs_path_string,  \* result of the article HTML download
    extractor_invoked,      \* purifier.json_from_file was called
    article,                \* the deserialized Article
    urls,                   \* the vector filled by the img loop
    image_urls,             \* the resolved image urls
    local_abs_image_paths,  \* results of the image downloads
    book0,                  \* book.epub before the run
    book,                   \* book.epub
    builder,                \* the EpubBuilder
    epub,                   \* the generated bytes
    i,                      \* position of the running for loop
    trace                   \* the steps executed, in order

vars == <<pc, result, target, tmp_created, tmp_exists, files, file_type,
          fetches, local_abs_path_string, extractor_invoked, article, urls,
          image_urls, local_abs_image_paths, book0, book, builder, epub, i, trace>>

TmpDir == "kindle-pult_"

NoFiles == [n \in {} |-> [kind |-> "none"]]
WriteFile(fs, name, payload) == [n \in DOMAIN fs \cup {name} |-> IF n = name THEN payload ELSE fs[n]]

NoBuilder == [made |-> FALSE, author |-> "", title |-> "", resources |-> <<>>, contents |-> <<>>]
NoBytes == [generated |-> FALSE, doc |-> NoBuilder]
BookAbsent == [exists |-> FALSE, content |-> "absent", doc |-> NoBuilder]
BookOld == [exists |-> TRUE, content |-> "old", doc |-> NoBuilder]

Init ==
    /\ pc = "ValidateURL"
    /\ result = "running"
    /\ target \in Targets
    /\ tmp_created = FALSE
    /\ tmp_exists = FALSE
    /\ files = NoFiles
    /\ file_type = "unset"
    /\ fetches = <<>>
    /\ local_abs_path_string = ErrPath("unset")
    /\ extractor_invoked = FALSE
    /\ article = NoArticle
    /\ urls = <<>>
    /\ image_urls = <<>>
    /\ local_abs_image_paths = <<>>
    /\ book0 \in {BookAbsent, BookOld}
    /\ book = book0
    /\ builder = NoBuilder
    /\ epub = NoBytes
    /\ i = 1
    /\ trace = <<>>

\* The run ends: return Ok(()), return Err(e) (the ? operator) or a panic
\* (unwrap/expect).
Finish(r) == /\ pc' = "Done"
             /\ result' = r

Goto(p) == /\ pc' = p
           /\ result' = result

Step(name) == trace' = Append(trace, name)

\* ValidateURL without the early return of line 112
ValidateURL_noreturn ==
    /\ pc = "ValidateURL"
    /\ Step("ValidateURL")
    /\ Goto("MakeTempDir")
    /\ UNCHANGED <<target, tmp_created, tmp_exists, files, file_type, fetches,
                   local_abs_path_string, extractor_invoked, article, urls,
                   image_urls, local_abs_image_paths, book0, book, builder, epub, i>>

\* lines 104-114
ValidateURL ==
    /\ pc = "ValidateURL"
    /\ Step("ValidateURL")
    /\ IF UrlParse(target).ok THEN Goto("MakeTempDir") ELSE Finish("ok")
    /\ UNCHANGED <<target, tmp_created, tmp_exists, files, file_type, fetches,
                   local_abs_path_string, extractor_invoked, article, urls,
                   image_urls, local_abs_image_paths, book0, book, builder, epub, i>>

\* lines 116-122: tempdir()?, into_path(), Downloader::new(.., DLFileType::Text)
MakeTempDir ==
    /\ pc = "MakeTempDir"
    /\ Step("MakeTempDir")
    /\ \E created \in BOOLEAN :
         IF created
         THEN /\ tmp_created' = TRUE
              /\ tmp_exists' = TRUE
              /\ file_type' = "Text"
              /\ Goto("FetchArticleHtml")
         ELSE /\ UNCHANGED <<tmp_created, tmp_exists, file_type>>
              /\ Finish("err")
    /\ UNCHANGED <<target, files, fetches, local_abs_path_string,
                   extractor_invoked, article, urls, image_urls,
                   local_abs_image_paths, book0, book, builder, epub, i>>

\* Outcomes of one download_from call:
\*   "ok"         the payload is in the destination file
\*   "err_get"    reqwest get failed (line 59) or File::create failed (line 74)
\*   "err_text"   response.text() failed (line 79), the file was created
\*   "panic_copy" io::copy failed (lines 80-81, 84-85), the file was created
DownloadOutcomes(mode) ==
    IF mode = "Text" THEN {"ok", "err_get", "err_text", "panic_copy"}
    ELSE {"ok", "err_get", "panic_copy"}

\* The payload that the destination file holds after download_from
DownloadedFile(url, mode, outcome) ==
    [kind |-> IF outcome = "ok" THEN mode ELSE "truncated", from |-> url]

\* download_from that keeps a file that already exists (create_new)
DownloadFiles_keepfirst(fs, url, mode, outcome) ==
    IF outcome = "err_get" \/ Filename(url) \in DOMAIN fs THEN fs
    ELSE WriteFile(fs, Filename(url), DownloadedFile(url, mode, outcome))

\* The working directory after download_from
DownloadFiles(fs, url, mode, outcome) ==
    IF outcome = "err_get" THEN fs
    ELSE WriteFile(fs, Filename(url), DownloadedFile(url, mode, outcome))

\* The value download_from returns (when it returns)
DownloadResult(url, outcome) ==
    IF outcome = "ok" THEN Ok(LocalAbsPath(TmpDir, Filename(url)))
    ELSE ErrPath(outcome)

Fetch(url, mode, outcome) == [url |-> url, mode |-> mode, outcome |-> outcome]

\* lines 123-124: downloader.download_from(target_url.unwrap())
FetchArticleHtml ==
    /\ pc = "FetchArticleHtml"
    /\ Step("FetchArticleHtml")
    /\ LET url == UrlParse(target).val
       IN \E outcome \in DownloadOutcomes(file_type) :
            /\ fetches' = Append(fetches, Fetch(url, file_type, outcome))
            /\ files' = DownloadFiles(files, url, file_type, outcome)
            /\ IF outcome = "panic_copy"
               THEN /\ Finish("panic")
                    /\ UNCHANGED local_abs_path_string
               ELSE /\ Goto("Extract")
                    /\ local_abs_path_string' = DownloadResult(url, outcome)
    /\ UNCHANGED <<target, tmp_created, tmp_exists, file_type,
                   extractor_invoked, article, urls, image_urls,
                   local_abs_image_paths, book0, book, builder, epub, i>>

ArticleJson == Seg("article", "json")

\* What purifier.json_from_file leaves at outfile_path: a serialized Article,
\* something that does not deserialize, or nothing.
ExtractorOutputs ==
    {[written |-> TRUE, payload |-> [kind |-> "json", article |-> a]] : a \in Articles}
    \cup {[written |-> TRUE, payload |-> [kind |-> "garbage", article |-> NoArticle]],
          [written |-> FALSE, payload |-> [kind |-> "garbage", article |-> NoArticle]]}

\* Extract that calls the extractor whatever the download returned
Extract_nounwrap ==
    /\ pc = "Extract"
    /\ Step("Extract")
    /\ extractor_invoked' = TRUE
    /\ \E out \in ExtractorOutputs :
         files' = IF out.written
                  THEN WriteFile(files, ArticleJson, out.payload)
                  ELSE files
    /\ Goto("ReadJson")
    /\ UNCHANGED <<target, tmp_created, tmp_exists, file_type, fetches,
                   local_abs_path_string, article, urls, image_urls,
                   local_abs_image_paths, book0, book, builder, epub, i>>

\* lines 126-134: local_abs_path_string.unwrap() is evaluated before the call
Extract ==
    /\ pc = "Extract"
    /\ IF ~local_abs_path_string.ok
       THEN /\ Finish("panic")
            /\ UNCHANGED <<files, extractor_invoked, trace>>
       ELSE /\ Step("Extract")
            /\ extractor_invoked' = TRUE
            /\ \E out \in ExtractorOutputs :
                 files' = IF out.written
                          THEN WriteFile(files, ArticleJson, out.payload)
                          ELSE files
            /\ Goto("ReadJson")
    /\ UNCHANGED <<target, tmp_created, tmp_exists, file_type, fetches,
                   local_abs_path_string, article, urls, image_urls,
                   local_abs_image_paths, book0, book, builder, epub, i>>

\* lines 136-139: File::open(..).expect(..), serde_json::from_reader(..).expect(..)
ReadJson ==
    /\ pc = "ReadJson"
    /\ Step("ReadJson")
    /\ IF ArticleJson \in DOMAIN files /\ files[ArticleJson].kind = "json"
       THEN /\ article' = files[ArticleJson].article
            /\ Goto("ResolveImages")
       ELSE /\ Finish("panic")
            /\ UNCHANGED article
    /\ UNCHANGED <<target, tmp_created, tmp_exists, files, file_type, fetches,
                   local_abs_path_string, extractor_invoked, urls, image_urls,
                   local_abs_image_paths, book0, book, builder, epub, i>>

\* lines 148-172, one img element: what the loop body does with it
\*   "push"      urls.push(val)
\*   "panic"     expect failed
\*   "return_ok" return Ok(())
ResolveImg(img, origin) ==
    IF ~img.has_src THEN [do |-> "panic", val |-> NoUrl]
    ELSE LET parsed == UrlParse(img.src)
         IN IF parsed.ok THEN [do |-> "push", val |-> parsed.val]
            ELSE IF parsed.err = "RelativeUrlWithoutBase"
                 THEN LET absolute_url == UrlJoin(UrlParse(origin).val, img.src)
                      IN IF absolute_url.ok
                         THEN [do |-> "push", val |-> absolute_url.val]
                         ELSE [do |-> "panic", val |-> NoUrl]
            ELSE [do |-> "return_ok", val |-> NoUrl]

\* ResolveImages with article.content.unwrap() in place of the match
ResolveImages_unwrap ==
    /\ pc = "ResolveImages"
    /\ Step("ResolveImages")
    /\ urls' = <<>>
    /\ i' = 1
    /\ IF article.content.some /\ article.content.val # <<>>
       THEN Goto("ResolveLoop")
       ELSE Finish("panic")
    /\ UNCHANGED <<target, tmp_created, tmp_exists, files, file_type, fetches,
                   local_abs_path_string, extractor_invoked, article, image_urls,
                   local_abs_image_paths, book0, book, builder, epub>>

\* lines 141-146 and 178-180: match article.clone().content
ResolveImages ==
    /\ pc = "ResolveImages"
    /\ Step("ResolveImages")
    /\ urls' = <<>>
    /\ i' = 1
    /\ IF article.content.some
       THEN /\ Goto("ResolveLoop")
            /\ UNCHANGED image_urls
       ELSE /\ Goto("SetImageMode")
            /\ image_urls' = <<>>
    /\ UNCHANGED <<target, tmp_created, tmp_exists, files, file_type, fetches,
                   local_abs_path_string, extractor_invoked, article,
                   local_abs_image_paths, book0, book, builder, epub>>

\* ResolveNext with urls.insert(0, ..) in place of urls.push(..)
ResolveNext_prepend ==
    /\ pc = "ResolveLoop"
    /\ i <= Len(article.content.val)
    /\ LET r == ResolveImg(article.content.val[i], target)
       IN /\ urls' = IF r.do = "push" THEN <<r.val>> \o urls ELSE urls
          /\ IF r.do = "push" THEN Goto("ResolveLoop")
             ELSE IF r.do = "panic" THEN Finish("panic")
             ELSE Finish("ok")
    /\ i' = i + 1
    /\ UNCHANGED <<target, tmp_created, tmp_exists, files, file_type, fetches,
                   local_abs_path_string, extractor_invoked, article, image_urls,
                   local_abs_image_paths, book0, book, builder, epub, trace>>

\* lines 147-173: one iteration of for img in soup.tag("img").find_all()
ResolveNext ==
    /\ pc = "ResolveLoop"
    /\ i <= Len(article.content.val)
    /\ LET r == ResolveImg(article.content.val[i], target)
       IN /\ urls' = IF r.do = "push" THEN Append(urls, r.val) ELSE urls
          /\ IF r.do = "push" THEN Goto("ResolveLoop")
             ELSE IF r.do = "panic" THEN Finish("panic")
             ELSE Finish("ok")
    /\ i' = i + 1
    /\ UNCHANGED <<target, tmp_created, tmp_exists, files, file_type, fetches,
                   local_abs_path_string, extractor_invoked, article, image_urls,
                   local_abs_image_paths, book0, book, builder, epub, trace>>

\* lines 175-177: the loop is over, the match yields urls
ResolveEnd ==
    /\ pc = "ResolveLoop"
    /\ i > Len(article.content.val)
    /\ image_urls' = urls
    /\ Goto("SetImageMode")
    /\ UNCHANGED <<target, tmp_created, tmp_exists, files, file_type, fetches,
                   local_abs_path_string, extractor_invoked, article, urls,
                   local_abs_image_paths, book0, book, builder, epub, i, trace>>

\* SetImageMode without downloader.file_type.set(DLFileType::Image)
SetImageMode_forgot ==
    /\ pc = "SetImageMode"
    /\ Step("SetImageMode")
    /\ local_abs_image_paths' = <<>>
    /\ i' = 1
    /\ Goto("FetchImages")
    /\ UNCHANGED <<target, tmp_created, tmp_exists, files, file_type, fetches,
                   local_abs_path_string, extractor_invoked, article, urls,
                   image_urls, book0, book, builder, epub>>

\* lines 183-185
SetImageMode ==
    /\ pc = "SetImageMode"
    /\ Step("SetImageMode")
    /\ file_type' = "Image"
    /\ local_abs_image_paths' = <<>>
    /\ i' = 1
    /\ Goto("FetchImages")
    /\ UNCHANGED <<target, tmp_created, tmp_exists, files, fetches,
                   local_abs_path_string, extractor_invoked, article, urls,
                   image_urls, book0, book, builder, epub>>

\* FetchImage that tries the same url again after a failed download
FetchImage_retry ==
    /\ pc = "FetchImages"
    /\ i <= Len(image_urls)
    /\ Step("FetchImage")
    /\ LET url == image_urls[i]
       IN \E outcome \in DownloadOutcomes(file_type) :
            /\ fetches' = Append(fetches, Fetch(url, file_type, outcome))
            /\ files' = DownloadFiles(files, url, file_type, outcome)
            /\ IF outcome = "panic_copy"
               THEN /\ Finish("panic")
                    /\ UNCHANGED <<local_abs_image_paths, i>>
               ELSE IF outcome = "ok"
               THEN /\ Goto("FetchImages")
                    /\ i' = i + 1
                    /\ local_abs_image_paths' =
                         Append(local_abs_image_paths, DownloadResult(url, outcome))
               ELSE /\ Goto("FetchImages")
                    /\ UNCHANGED <<local_abs_image_paths, i>>
    /\ UNCHANGED <<target, tmp_created, tmp_exists, file_type,
                   local_abs_path_string, extractor_invoked, article, urls,
                   image_urls, book0, book, builder, epub>>

\* lines 187-190: one iteration of for url in image_urls; the result of
\* download_from is pushed as it is, Ok or Err
FetchImage ==
    /\ pc = "FetchImages"
    /\ i <= Len(image_urls)
    /\ Step("FetchImage")
    /\ LET url == image_urls[i]
       IN \E outcome \in DownloadOutcomes(file_type) :
            /\ fetches' = Append(fetches, Fetch(url, file_type, outcome))
            /\ files' = DownloadFiles(files, url, file_type, outcome)
            /\ IF outcome = "panic_copy"
               THEN /\ Finish("panic")
                    /\ UNCHANGED local_abs_image_paths
               ELSE /\ Goto("FetchImages")
                    /\ local_abs_image_paths' =
                         Append(local_abs_image_paths, DownloadResult(url, outcome))
    /\ i' = i + 1
    /\ UNCHANGED <<target, tmp_created, tmp_exists, file_type,
                   local_abs_path_string, extractor_invoked, article, urls,
                   image_urls, book0, book, builder, epub>>

\* line 190: the loop is over
FetchImagesEnd ==
    /\ pc = "FetchImages"
    /\ i > Len(image_urls)
    /\ Goto("CreateEpubFile")
    /\ UNCHANGED <<target, tmp_created, tmp_exists, files, file_type, fetches,
                   local_abs_path_string, extractor_invoked, article, urls,
                   image_urls, local_abs_image_paths, book0, book, builder,
                   epub, i, trace>>

\* lines 192-195: fs::File::create("book.epub")? creates or truncates the file
CreateEpubFile ==
    /\ pc = "CreateEpubFile"
    /\ Step("CreateEpubFile")
    /\ \E created \in BOOLEAN :
         IF created
         THEN /\ book' = [exists |-> TRUE, content |-> "empty", doc |-> NoBuilder]
              /\ Goto("UnwrapFields")
         ELSE /\ UNCHANGED book
              /\ Finish("err")
    /\ UNCHANGED <<target, tmp_created, tmp_exists, files, file_type, fetches,
                   local_abs_path_string, extractor_invoked, article, urls,
                   image_urls, local_abs_image_paths, book0, builder, epub, i>>

\* lines 197-199: the three unwraps
FieldsPresent(a) == a.title.some /\ a.byline.some /\ a.content.some

UnwrapFields ==
    /\ pc = "UnwrapFields"
    /\ Step("UnwrapFields")
    /\ IF FieldsPresent(article) THEN Goto("NewBuilder") ELSE Finish("panic")
    /\ UNCHANGED <<target, tmp_created, tmp_exists, files, file_type, fetches,
                   local_abs_path_string, extractor_invoked, article, urls,
                   image_urls, local_abs_image_paths, book0, book, builder,
                   epub, i>>

\* lines 201-203: EpubBuilder::new(ZipLibrary::new()?)? and the two metadata
NewBuilder ==
    /\ pc = "NewBuilder"
    /\ Step("NewBuilder")
    /\ \E built \in BOOLEAN :
         IF built
         THEN /\ builder' = [made |-> TRUE,
                             author |-> article.byline.val,
                             title |-> article.title.val,
                             resources |-> <<>>,
                             contents |-> <<>>]
              /\ i' = 1
              /\ Goto("AddImages")
         ELSE /\ UNCHANGED <<builder, i>>
              /\ Finish("err")
    /\ UNCHANGED <<target, tmp_created, tmp_exists, files, file_type, fetches,
                   local_abs_path_string, extractor_invoked, article, urls,
                   image_urls, local_abs_image_paths, book0, book, epub>>

\* line 214: ImageReader::open takes the format from the extension of the path
DecodableExts == {"png", "jpg"}

\* the unwraps with a default in place of extension().unwrap()
ImgUnwraps_noext(img) == img.ok

\* lines 207-211: img.unwrap() and img_path.extension().unwrap()
ImgUnwraps(img) == img.ok /\ img.val.name.ext # ""

Resource(fs, path) ==
    [name |-> path.name, bytes |-> fs[path.name], mime |-> <<"image", path.name.ext>>]

\* AddImage that skips a failed download in place of img.unwrap()
AddImage_skip ==
    /\ pc = "AddImages"
    /\ i <= Len(local_abs_image_paths)
    /\ Step("AddImage")
    /\ LET img == local_abs_image_paths[i]
       IN IF ~img.ok
          THEN /\ Goto("AddImages")
               /\ UNCHANGED builder
          ELSE IF img.val.name.ext = ""
          THEN /\ Finish("panic")
               /\ UNCHANGED builder
          ELSE \E added \in {d \in BOOLEAN : d => img.val.name.ext \in DecodableExts
                                                  /\ img.val.name \in DOMAIN files} :
                 IF added
                 THEN /\ builder' = [builder EXCEPT !.resources =
                                        Append(@, Resource(files, img.val))]
                      /\ Goto("AddImages")
                 ELSE /\ UNCHANGED builder
                      /\ Finish("err")
    /\ i' = i + 1
    /\ UNCHANGED <<target, tmp_created, tmp_exists, files, file_type, fetches,
                   local_abs_path_string, extractor_invoked, article, urls,
                   image_urls, local_abs_image_paths, book0, book, epub>>

\* lines 205-219: one iteration of for img in local_abs_image_paths
AddImage ==
    /\ pc = "AddImages"
    /\ i <= Len(local_abs_image_paths)
    /\ Step("AddImage")
    /\ LET img == local_abs_image_paths[i]
       IN IF ~ImgUnwraps(img)
          THEN /\ Finish("panic")
               /\ UNCHANGED builder
          ELSE \E added \in {d \in BOOLEAN : d => img.val.name.ext \in DecodableExts
                                                  /\ img.val.name \in DOMAIN files} :
                 IF added
                 THEN /\ builder' = [builder EXCEPT !.resources =
                                        Append(@, Resource(files, img.val))]
                      /\ Goto("AddImages")
                 ELSE /\ UNCHANGED builder
                      /\ Finish("err")
    /\ i' = i + 1
    /\ UNCHANGED <<target, tmp_created, tmp_exists, files, file_type, fetches,
                   local_abs_path_string, extractor_invoked, article, urls,
                   image_urls, local_abs_image_paths, book0, book, epub>>

Body(text, markup) == [text |-> text, markup |-> markup]
TitlePage(title) ==
    [file |-> "title.xhtml", body |-> Body(title, <<>>), title |-> title, reftype |-> "TitlePage"]
\* Chapter whose body is not the content markup
Chapter_empty(content) ==
    [file |-> "article.xhtml", body |-> Body("", <<>>), title |-> "", reftype |-> "Text"]
Chapter(content) ==
    [file |-> "article.xhtml", body |-> Body("", content), title |-> "", reftype |-> "Text"]

\* lines 221-224, after the image loop
AddTitlePage ==
    /\ pc = "AddImages"
    /\ i > Len(local_abs_image_paths)
    /\ Step("AddTitlePage")
    /\ \E added \in BOOLEAN :
         IF added
         THEN /\ builder' = [builder EXCEPT !.contents =
                                Append(@, TitlePage(article.title.val))]
              /\ Goto("AddChapter")
         ELSE /\ UNCHANGED builder
              /\ Finish("err")
    /\ UNCHANGED <<target, tmp_created, tmp_exists, files, file_type, fetches,
                   local_abs_path_string, extractor_invoked, article, urls,
                   image_urls, local_abs_image_paths, book0, book, epub, i>>

\* lines 226-227
AddChapter ==
    /\ pc = "AddChapter"
    /\ Step("AddChapter")
    /\ \E added \in BOOLEAN :
         IF added
         THEN /\ builder' = [builder EXCEPT !.contents =
                                Append(@, Chapter(article.content.val))]
              /\ Goto("Generate")
         ELSE /\ UNCHANGED builder
              /\ Finish("err")
    /\ UNCHANGED <<target, tmp_created, tmp_exists, files, file_type, fetches,
                   local_abs_path_string, extractor_invoked, article, urls,
                   image_urls, local_abs_image_paths, book0, book, epub, i>>

\* line 229: builder.generate(&mut epub)?
Generate ==
    /\ pc = "Generate"
    /\ Step("Generate")
    /\ \E generated \in BOOLEAN :
         IF generated
         THEN /\ epub' = [generated |-> TRUE, doc |-> builder]
              /\ Goto("WriteEpub")
         ELSE /\ UNCHANGED epub
              /\ Finish("err")
    /\ UNCHANGED <<target, tmp_created, tmp_exists, files, file_type, fetches,
                   local_abs_path_string, extractor_invoked, article, urls,
                   image_urls, local_abs_image_paths, book0, book, builder, i>>

\* lines 231-232: io::copy(&mut &epub[..], &mut epub_dest).expect(..)
WriteEpub ==
    /\ pc = "WriteEpub"
    /\ Step("WriteEpub")
    /\ \E copied \in BOOLEAN :
         IF copied
         THEN /\ book' = [exists |-> TRUE, content |-> "epub", doc |-> epub.doc]
              /\ Goto("Cleanup")
         ELSE /\ book' = [exists |-> TRUE, content |-> "partial", doc |-> NoBuilder]
              /\ Finish("panic")
    /\ UNCHANGED <<target, tmp_created, tmp_exists, files, file_type, fetches,
                   local_abs_path_string, extractor_invoked, article, urls,
                   image_urls, local_abs_image_paths, book0, builder, epub, i>>

\* Cleanup without fs::remove_dir_all
Cleanup_keep ==
    /\ pc = "Cleanup"
    /\ Step("Cleanup")
    /\ Finish("ok")
    /\ UNCHANGED <<target, tmp_created, tmp_exists, files, file_type, fetches,
                   local_abs_path_string, extractor_invoked, article, urls,
                   image_urls, local_abs_image_paths, book0, book, builder,
                   epub, i>>

\* lines 234-237: fs::remove_dir_all(tmp_dir_path)?; Ok(())
Cleanup ==
    /\ pc = "Cleanup"
    /\ Step("Cleanup")
    /\ \E removed \in BOOLEAN :
         IF removed
         THEN /\ tmp_exists' = FALSE
              /\ files' = NoFiles
              /\ Finish("ok")
         ELSE /\ UNCHANGED <<tmp_exists, files>>
              /\ Finish("err")
    /\ UNCHANGED <<target, tmp_created, file_type, fetches,
                   local_abs_path_string, extractor_invoked, article, urls,
                   image_urls, local_abs_image_paths, book0, book, builder,
                   epub, i>>

Next ==
    \/ ValidateURL
    \/ MakeTempDir
    \/ FetchArticleHtml
    \/ Extract
    \/ ReadJson
    \/ ResolveImages
    \/ ResolveNext
    \/ ResolveEnd
    \/ SetImageMode
    \/ FetchImage
    \/ FetchImagesEnd
    \/ CreateEpubFile
    \/ UnwrapFields
    \/ NewBuilder
    \/ AddImage
    \/ AddTitlePage
    \/ AddChapter
    \/ Generate
    \/ WriteEpub
    \/ Cleanup

Spec == Init /\ [][Next]_vars

\* The function is sequential and single-threaded: as long as every external
\* call returns, the next statement is executed.
FairSpec == Spec /\ WF_vars(Next)

----------------------------------------------------------------------------
\* Properties

Terminated == pc = "Done"
Steps == {trace[k] : k \in 1..Len(trace)}
Did(step) == step \in Steps
\* line 237 was reached
Success == Terminated /\ result = "ok" /\ Did("Cleanup")
InputInvalid == ~UrlParse(target).ok
\* the download_from calls after the article HTML one
ImageFetches == SubSeq(fetches, 2, Len(fetches))
Imgs == article.content.val

\* C1: when the input string does not parse as a URL the run returns Ok(())
\* and creates no working directory, performs no fetch, does not invoke the
\* extractor and leaves book.epub untouched.
C1_InvalidUrlCleanExit ==
    InputInvalid =>
        /\ ~tmp_created
        /\ fetches = <<>>
        /\ ~extractor_invoked
        /\ book = book0
        /\ result \in {"running", "ok"}
        /\ Terminated => result = "ok"

C1_Witness == InputInvalid /\ Terminated /\ result = "ok"

\* C2: a run that reaches success has written the assembled bytes to
\* book.epub and afterwards removed the working directory, which no longer
\* exists.
C2_SuccessWrittenThenCleaned ==
    Success =>
        /\ tmp_created
        /\ ~tmp_exists
        /\ epub.generated
        /\ book = [exists |-> TRUE, content |-> "epub", doc |-> epub.doc]
        /\ \E w, c \in 1..Len(trace) :
             /\ w < c
             /\ trace[w] = "WriteEpub"
             /\ trace[c] = "Cleanup"
             /\ c = Len(trace)

C2_Witness == Success /\ Len(builder.resources) > 0

\* C3: every run that created a working directory has removed it by the
\* time the run has terminated, whatever the step it terminates at.
C3_CleanedOnEveryExit == (Terminated /\ tmp_created) => ~tmp_exists

\* C4: the only runs that end without an error are the successful ones and
\* the ones whose input URL failed to parse.
C4_OnlyTwoNonErrorExits ==
    (Terminated /\ result = "ok") => (Success \/ InputInvalid)

\* C5: when the extracted Article has no title, no image fetch is performed.
C5_NoImageFetchWithoutTitle ==
    (Did("ReadJson") /\ ~article.title.some) => ImageFetches = <<>>

\* C6: book.epub is touched only by the Write step, after Assemble.
C6_BookTouchedOnlyByWrite == book # book0 => Did("WriteEpub")

\* C7: if at least one image fetch fails the run never reaches success and
\* never writes assembled bytes to book.epub.
SomeImageFetchFailed == \E k \in 1..Len(ImageFetches) : ImageFetches[k].outcome # "ok"

C7_ImageFetchFailureFatal ==
    SomeImageFetchFailed => (~Success /\ book.content # "epub" /\ ~Did("WriteEpub"))

C7_Witness == SomeImageFetchFailed /\ Terminated /\ Did("AddImage")

\* C8: the article HTML fetch is made in Text mode, every image fetch in
\* Image mode; the mode is switched to Image once, after the HTML fetch and
\* before the first image fetch, and never switched back.
FetchModesRight ==
    /\ \A k \in 1..Len(fetches) :
         fetches[k].mode = IF k = 1 THEN "Text" ELSE "Image"
    /\ fetches # <<>> => fetches[1].url = UrlParse(target).val
    /\ \A k \in 1..Len(ImageFetches) : ImageFetches[k].url = image_urls[k]

ModeSwitchRight ==
    /\ file_type = "Image" => file_type' = "Image"
    /\ (file_type # "Image" /\ file_type' = "Image") =>
            (file_type = "Text" /\ Len(fetches) = 1 /\ Len(fetches') = 1)
    /\ file_type' = "Text" => file_type \in {"unset", "Text"}

C8_FetchMode == []FetchModesRight /\ [][ModeSwitchRight]_vars

C8_Witness == Len(ImageFetches) >= 2 /\ file_type = "Image"

\* C9: when every img element carries a src that is an absolute URL or a
\* relative reference, the resolved list has one entry per img element in
\* document order: the URL itself for an absolute src, the join of the origin
\* URL and the src for a relative one, and every entry is absolute.
IsAbsoluteUrl(src) == src.scheme # "" /\ ValidHost(src.auth)
IsRelativeRef(src) == src.scheme = "" /\ (src.auth = "" \/ ValidHost(src.auth))
AllSrcsResolvable ==
    /\ article.content.some
    /\ \A k \in 1..Len(Imgs) :
         Imgs[k].has_src /\ (IsAbsoluteUrl(Imgs[k].src) \/ IsRelativeRef(Imgs[k].src))
Resolved == pc \in {"SetImageMode", "FetchImages"}

C9_ResolvedList ==
    (Resolved /\ AllSrcsResolvable) =>
        /\ Len(image_urls) = Len(Imgs)
        /\ \A k \in 1..Len(Imgs) :
             LET src == Imgs[k].src
                 entry == image_urls[k]
             IN /\ IsAbsoluteUrl(src) =>
                     /\ entry.scheme = src.scheme
                     /\ entry.host = src.auth
                     /\ entry.path = (IF src.path = <<>> THEN <<EmptySeg>> ELSE src.path)
                /\ IsRelativeRef(src) =>
                     entry = UrlJoin(UrlParse(target).val, src).val
                /\ entry.scheme # "" /\ entry.host # "" /\ entry.path # <<>>
        \* the example of the join: https://news/blog/post + images/a.jpg
        /\ \A k \in 1..Len(Imgs) :
             (target = TargetGood /\ Imgs[k].src = SrcRelDir) =>
                 image_urls[k] = [scheme |-> "https", host |-> "news",
                                  path |-> <<Seg("blog", ""), Seg("images", ""), Seg("a", "jpg")>>]

C9_Witness ==
    /\ Resolved /\ AllSrcsResolvable
    /\ Len(Imgs) = 2
    /\ IsAbsoluteUrl(Imgs[1].src)
    /\ IsRelativeRef(Imgs[2].src)

\* C10: if any img element lacks a src attribute the run aborts with an
\* error and performs no image fetch.
SomeImgLacksSrc ==
    /\ Did("ReadJson")
    /\ article.content.some
    /\ \E k \in 1..Len(Imgs) : ~Imgs[k].has_src

C10_MissingSrcAborts ==
    SomeImgLacksSrc =>
        /\ ImageFetches = <<>>
        /\ image_urls = <<>>
        /\ Terminated => result \in {"err", "panic"}

\* the Article was deserialized (line 139 returned)
Extracted == Did("ReadJson") /\ ~(Terminated /\ trace[Len(trace)] = "ReadJson")

\* C11: when the extracted Article has no content, or content without img
\* elements, the resolution ends without an error with an empty image list
\* and the run performs no image fetch.
NoImgs == Extracted /\ (~article.content.some \/ Imgs = <<>>)

C11_NoImagesNoFetch ==
    NoImgs =>
        /\ image_urls = <<>>
        /\ urls = <<>>
        /\ ImageFetches = <<>>
        /\ local_abs_image_paths = <<>>
        /\ Terminated => Did("SetImageMode")
        /\ Did("CreateEpubFile") => Did("SetImageMode")

C11_Witness == NoImgs /\ pc = "CreateEpubFile" /\ article.content.some

\* C12: title, byline and content are all required: a run succeeds only if
\* all three are present, and when one is absent the run aborts with an
\* error and never generates or writes document bytes.
SomeFieldAbsent == Extracted /\ ~FieldsPresent(article)

C12_FieldsRequired ==
    SomeFieldAbsent =>
        /\ ~Success
        /\ ~epub.generated
        /\ book.content # "epub"
        /\ Terminated => result \in {"err", "panic"}

\* C13: in a successful run the document has author = byline and title =
\* title, one resource per entry of the local image path list, and exactly
\* two content sections: the title page with the title text, then one
\* chapter with the content markup unmodified; every resource is added
\* before the title page.
Doc == book.doc

C13_DocumentStructure ==
    Success =>
        /\ Doc.made
        /\ Doc.author = article.byline.val
        /\ Doc.title = article.title.val
        /\ Len(Doc.resources) = Len(local_abs_image_paths)
        /\ \A k \in 1..Len(Doc.resources) :
             /\ local_abs_image_paths[k].ok
             /\ Doc.resources[k].name = local_abs_image_paths[k].val.name
             /\ Doc.resources[k].mime = <<"image", local_abs_image_paths[k].val.name.ext>>
        /\ Len(Doc.contents) = 2
        /\ Doc.contents[1].file = "title.xhtml"
        /\ Doc.contents[1].reftype = "TitlePage"
        /\ Doc.contents[1].body = [text |-> article.title.val, markup |-> <<>>]
        /\ Doc.contents[2].file = "article.xhtml"
        /\ Doc.contents[2].body = [text |-> "", markup |-> article.content.val]
        /\ \A a, t, c \in 1..Len(trace) :
             (trace[a] = "AddImage" /\ trace[t] = "AddTitlePage" /\ trace[c] = "AddChapter")
                 => (a < t /\ t < c)
        /\ \A t, c \in 1..Len(trace) :
             (trace[t] = "AddTitlePage" /\ trace[c] = "AddChapter") => t < c
        /\ Cardinality({k \in 1..Len(trace) : trace[k] = "AddTitlePage"}) = 1
        /\ Cardinality({k \in 1..Len(trace) : trace[k] = "AddChapter"}) = 1

C13_Witness == Success /\ Len(Doc.resources) = 2 /\ Len(Doc.contents) = 2

\* C14: after an image fetch has failed, no further image fetch is attempted
\* and no later pipeline step (creating the output file, assembling) is
\* started.
C14_AbortAtFailedImageFetch ==
    \A k \in 1..Len(ImageFetches) :
        ImageFetches[k].outcome # "ok" =>
            /\ k = Len(ImageFetches)
            /\ ~Did("CreateEpubFile")
            /\ ~Did("NewBuilder")

\* C15: if the article HTML fetch fails the run aborts before Extract: the
\* extractor is not invoked, no extractor output is read, no image is
\* fetched and the output file is not created.
HtmlFetchFailed == fetches # <<>> /\ fetches[1].outcome # "ok"

C15_HtmlFetchFailureAborts ==
    HtmlFetchFailed =>
        /\ ~extractor_invoked
        /\ ~Did("Extract")
        /\ ~Did("ReadJson")
        /\ ArticleJson \notin DOMAIN files
        /\ ImageFetches = <<>>
        /\ book = book0
        /\ ~Did("CreateEpubFile")
        /\ result \in {"running", "panic"}
        /\ pc \in {"Extract", "Done"}

C15_Witness == HtmlFetchFailed /\ Terminated /\ fetches[1].outcome = "err_get"

\* C16: after the FetchImages step every file of the working directory with
\* a derived filename f holds the payload of the last successfully fetched
\* URL whose derived filename is f, and the list of local image paths has one
\* entry per resolved URL, so that two URLs with the same basename give two
\* entries that name the same file.
FetchImagesOver == pc \in {"CreateEpubFile", "UnwrapFields", "NewBuilder", "AddImages"}
OkFetchesOf(f) ==
    {k \in 1..Len(fetches) : fetches[k].outcome = "ok" /\ Filename(fetches[k].url) = f}
MaxOf(S) == CHOOSE m \in S : \A n \in S : n <= m

Rank(step) ==
    CASE step = "ValidateURL" -> 1
      [] step = "MakeTempDir" -> 2
      [] step = "FetchArticleHtml" -> 3
      [] step = "Extract" -> 4
      [] step = "ReadJson" -> 5
      [] step = "ResolveImages" -> 6
      [] step = "SetImageMode" -> 7
      [] step = "FetchImage" -> 8
      [] step = "CreateEpubFile" -> 9
      [] step = "UnwrapFields" -> 10
      [] step = "NewBuilder" -> 11
      [] step = "AddImage" -> 12
      [] step = "AddTitlePage" -> 13
      [] step = "AddChapter" -> 14
      [] step = "Generate" -> 15
      [] step = "WriteEpub" -> 16
      [] step = "Cleanup" -> 17
      [] OTHER -> 0

Count(step) == Cardinality({k \in 1..Len(trace) : trace[k] = step})

CleanEarlyExit == Terminated /\ result = "ok" /\ ~Did("Cleanup")
Aborted == Terminated /\ result \in {"err", "panic"}

PipelineOrder ==
    /\ \A k \in 1..Len(trace) : Rank(trace[k]) > 0
    /\ \A j, k \in 1..Len(trace) :
         j < k => \/ Rank(trace[j]) < Rank(trace[k])
                  \/ /\ trace[j] = trace[k]
                     /\ trace[j] \in {"FetchImage", "AddImage"}
    /\ Count("FetchImage") = Len(ImageFetches)
    /\ Count("FetchImage") <= Len(image_urls)
    /\ \A j, k \in 1..Len(ImageFetches) :
         j < k => ImageFetches[j].url = image_urls[j] /\ ImageFetches[k].url = image_urls[k]
    /\ Count("AddImage") <= Len(local_abs_image_paths)
    /\ Terminated <=> result # "running"
    /\ Terminated =>
         /\ (CleanEarlyExit \/ Success \/ Aborted)
         /\ ~(CleanEarlyExit /\ Success)
         /\ ~(CleanEarlyExit /\ Aborted)
         /\ ~(Success /\ Aborted)
         /\ Success => Len(trace) >= 15

C17_TerminatesInOrder == <>Terminated /\ []PipelineOrder

C17_Witness == Success /\ Count("FetchImage") = 2 /\ Count("AddImage") = 2

\* C18: a run succeeds only if the derived filename of every fetched image
\* has an extension: for an image that was fetched successfully under a
\* filename without extension the assembly aborts with an error, after the
\* output file has been created; the fallback name tmp.bin does not abort
\* for this reason.
LastStepIs(step) == trace # <<>> /\ trace[Len(trace)] = step
NoExtension(img) == img.ok /\ img.val.name.ext = ""

C18_ExtensionRequired ==
    /\ Success => \A k \in 1..Len(local_abs_image_paths) :
                     local_abs_image_paths[k].ok /\ ~NoExtension(local_abs_image_paths[k])
    /\ \A k \in 1..Count("AddImage") :
         LET img == local_abs_image_paths[k]
         IN /\ NoExtension(img) =>
                 /\ ImageFetches[k].outcome = "ok"
                 /\ k = Count("AddImage")
                 /\ Terminated /\ LastStepIs("AddImage")
                 /\ result = "panic"
                 /\ Did("CreateEpubFile") /\ book.exists
                 /\ book.content = "empty"
            /\ (img.ok /\ img.val.name = TmpBin /\ k = Count("AddImage")
                /\ Terminated /\ LastStepIs("AddImage")) => result = "err"

C18_Witness ==
    /\ Terminated /\ LastStepIs("AddImage")
    /\ Count("AddImage") = 2
    /\ NoExtension(local_abs_image_paths[2])

====
